---- MODULE Spec2Model ----
(***************************************************************************)
(* Model of the credit-card expense pipeline of gold_price_scraper:        *)
(*   src/expenses/credit_card_expenses.py  (categorizer, CSV parser, CLI)  *)
(*   src/expenses/app.py                   (ingestion, aggregation, API)   *)
(*                                                                         *)
(* Text is modelled by TLA+ strings (Len, SubSeq, Head, Tail and \o work   *)
(* on them character by character).  Amounts are exact integers counted in *)
(* hundredths of a euro: "12.50" is 1250.  A file is the sequence of rows  *)
(* csv.reader yields for it, a row the sequence of its fields.             *)
(***************************************************************************)
EXTENDS Integers, Sequences, FiniteSets, TLC

VARIABLES
    disk,          \* ./expense_reports/*.csv in glob order: <<[readable, rows]>>
    op,            \* the entry point being served, "none" when idle
    pc,            \* position of the running entry point
    csv_file,      \* index into disk of the file of the current loop iteration
    reader,        \* rows the csv.reader of the open file has not yielded yet
    expenses,      \* parse_expenses_from_csv: the list being built
    all_expenses,  \* get_expenses_data / main: the flat transaction list
    monthly_sums,  \* get_monthly_data / main: month key -> category -> amount
    response,      \* what the entry point returned, or the exception it raised
    merchant,      \* categorizer harness: the merchant text
    category,      \* categorizer harness: what categorize_merchant returned
    args,          \* the URL parameters of the entry point: [category, month]
    pads_year,     \* whether the platform's strftime writes %Y with four digits
    queries        \* concurrent calls of get_monthly_data: id -> its locals

vars == <<disk, op, pc, csv_file, reader, expenses, all_expenses,
          monthly_sums, response, merchant, category, args, pads_year, queries>>

pipeline_vars == <<disk, op, pc, csv_file, reader, expenses, all_expenses,
                   monthly_sums, response>>

-----------------------------------------------------------------------------
(* Bounds of the model. *)

\* how many text fragments a generated merchant description is made of
MaxFragments == 2
\* how many rows (header included) the file of the single-file runs holds
MaxFileRows == 4
\* how many files the source directory holds
MaxFiles == 2
\* how many rows (headers included) the files of the directory hold together
MaxDiskRows == 4

-----------------------------------------------------------------------------
(* str methods *)

UpperCase == "ABCDEFGHIJKLMNOPQRSTUVWXYZ"
LowerCase == "abcdefghijklmnopqrstuvwxyz"

\* position of the one-character string c in the string s, 0 when absent
IndexIn(c, s) ==
    IF \E i \in 1..Len(s) : SubSeq(s, i, i) = c
    THEN CHOOSE i \in 1..Len(s) :
            /\ SubSeq(s, i, i) = c
            /\ \A j \in 1..(i - 1) : SubSeq(s, j, j) # c
    ELSE 0

LowerChar(c) ==
    LET i == IndexIn(c, UpperCase)
    IN  IF i = 0 THEN c ELSE SubSeq(LowerCase, i, i)

RECURSIVE Lower(_)
\* str.lower()
Lower(s) == IF s = "" THEN "" ELSE LowerChar(Head(s)) \o Lower(Tail(s))

IsSpace(c) == c \in {" ", "\t", "\n", "\r"}

RECURSIVE LStrip(_)
LStrip(s) == IF s # "" /\ IsSpace(Head(s)) THEN LStrip(Tail(s)) ELSE s

RECURSIVE RStrip(_)
RStrip(s) ==
    IF s # "" /\ IsSpace(SubSeq(s, Len(s), Len(s)))
    THEN RStrip(SubSeq(s, 1, Len(s) - 1))
    ELSE s

\* a variant that strips nothing
StripNothing(s) == s

\* str.strip()
Strip(s) == RStrip(LStrip(s))

\* Python's `keyword in text`
Contains(text, keyword) ==
    \E i \in 1..(Len(text) - Len(keyword) + 1) :
        SubSeq(text, i, i + Len(keyword) - 1) = keyword

-----------------------------------------------------------------------------
(* Category configuration *)

\* the dict literal, in insertion order (the order .items() iterates in)
CATEGORIES == <<
    [category |-> "groceries", keywords |-> <<
        "yeme", "coop", "lidl", "billa", "malina", "kraj", "terno",
        "stary otec", "ah", "albert hein", "jumbo", "spar", "tesco",
        "pekaren", "albert heijn" >>],
    [category |-> "eating out", keywords |-> <<
        "bowls", "gelato", "pollito", "kebab", "roxor", "dunkin donuts",
        "chokiki", "poseidon", "mcdonald", "kfc", "restauracia", "kaviaren",
        "ramen", "bowlicheck", "soho", "starbucks", "subway", "koliba",
        "pho", "dominos", "kavoaren", "kantina", "bbq", "burger", "cafe",
        "wolt", "noodle", "fresh market", "noodle", "costa", "fruitisimo",
        "restaurant", "donuteria" >>],
    [category |-> "bolt", keywords |-> << "bolt", "taxi" >>],
    [category |-> "car wash", keywords |-> << "mobydick", "pasadur" >>],
    [category |-> "gas stations", keywords |-> <<
        "orlen", "slovnaft", "omv", "shell", "cerp. stanica" >>],
    [category |-> "nabytok", keywords |-> <<
        "ikea", "hornbach", "jysk", "mobelix", "bauhaus" >>],
    [category |-> "travel", keywords |-> <<
        "flixbus", "ryanair", "airbnb", "booking", "hotels.com" >>],
    [category |-> "parking", keywords |-> <<
        "parkscheinautomat", "parkovis", "parkovanie", "parking",
        "easypark" >>],
    [category |-> "oil partner", keywords |-> << "oil" >>] >>

CATEGORY_ORDER == <<
    "groceries", "eating out", "bolt", "car wash", "gas stations",
    "parking", "nabytok", "oil partner", "other" >>

\* a variant of the loop that keeps scanning and returns the last match
categorize_merchant_last(merchant_text) ==
    LET merchant_lower == Lower(merchant_text)
        hits == { ci \in 1..Len(CATEGORIES) :
                    \E ki \in 1..Len(CATEGORIES[ci].keywords) :
                        Contains(merchant_lower, CATEGORIES[ci].keywords[ki]) }
    IN  IF hits = {} THEN "other"
        ELSE CATEGORIES[CHOOSE ci \in hits : \A cj \in hits : cj <= ci].category

RECURSIVE first_keyword_in(_, _, _)
\* the inner loop `for keyword in keywords`: the position of the first keyword
\* found in the text, from position ki on; 0 when the loop ends without one
first_keyword_in(keywords, ki, merchant_lower) ==
    IF ki > Len(keywords) THEN 0
    ELSE IF Contains(merchant_lower, keywords[ki]) THEN ki
    ELSE first_keyword_in(keywords, ki + 1, merchant_lower)

RECURSIVE scan_categories(_, _)
\* the outer loop `for category, keywords in CATEGORIES.items()`, from
\* position ci on, returning at the first keyword found
scan_categories(ci, merchant_lower) ==
    IF ci > Len(CATEGORIES) THEN "other"
    ELSE IF first_keyword_in(CATEGORIES[ci].keywords, 1, merchant_lower) # 0
         THEN CATEGORIES[ci].category
         ELSE scan_categories(ci + 1, merchant_lower)

categorize_merchant(merchant_text) == scan_categories(1, Lower(merchant_text))

-----------------------------------------------------------------------------
(* datetime.strptime(date_str, "%d.%m.%Y"), float(amount_str), strftime *)

Digits == "0123456789"

IsDigit(c) == IndexIn(c, Digits) # 0

AllDigits(s) == \A i \in 1..Len(s) : IsDigit(SubSeq(s, i, i))

RECURSIVE ToInt(_)
\* the number a string of digits denotes
ToInt(s) ==
    IF s = "" THEN 0
    ELSE 10 * ToInt(SubSeq(s, 1, Len(s) - 1))
            + (IndexIn(SubSeq(s, Len(s), Len(s)), Digits) - 1)

RECURSIVE ToDigits(_, _)
\* n >= 0 written with at least width digits
ToDigits(n, width) ==
    IF n < 10 /\ width <= 1 THEN SubSeq(Digits, n + 1, n + 1)
    ELSE ToDigits(n \div 10, width - 1) \o SubSeq(Digits, (n % 10) + 1, (n % 10) + 1)

ValueError == [ok |-> FALSE]

IsLeap(year) == (year % 4 = 0 /\ year % 100 # 0) \/ year % 400 = 0

DaysInMonth(year, month) ==
    IF month = 2 THEN (IF IsLeap(year) THEN 29 ELSE 28)
    ELSE IF month \in {4, 6, 9, 11} THEN 30 ELSE 31

\* %d and %m take one or two digits, %Y exactly four, "." is literal and the
\* whole string must be consumed; the date must exist in the calendar
strptime(date_str) ==
    LET dots == { i \in 1..Len(date_str) : SubSeq(date_str, i, i) = "." }
    IN  IF Cardinality(dots) # 2 THEN ValueError
        ELSE LET d1 == CHOOSE i \in dots : \A j \in dots : i <= j
                 d2 == CHOOSE i \in dots : \A j \in dots : j <= i
                 dd == SubSeq(date_str, 1, d1 - 1)
                 mm == SubSeq(date_str, d1 + 1, d2 - 1)
                 yyyy == SubSeq(date_str, d2 + 1, Len(date_str))
             IN  IF /\ Len(dd) \in {1, 2} /\ AllDigits(dd)
                    /\ Len(mm) \in {1, 2} /\ AllDigits(mm)
                    /\ Len(yyyy) = 4 /\ AllDigits(yyyy)
                    /\ ToInt(yyyy) >= 1
                    /\ ToInt(mm) \in 1..12
                    /\ ToInt(dd) \in 1..DaysInMonth(ToInt(yyyy), ToInt(mm))
                 THEN [ok |-> TRUE,
                       value |-> [year |-> ToInt(yyyy), month |-> ToInt(mm),
                                  day |-> ToInt(dd)]]
                 ELSE ValueError

\* float() on plain decimal text: optional sign, digits, optional "." and
\* digits, at least one digit.  The value is exact, in hundredths, so the
\* operator is defined for at most two fractional digits; exponents, "inf",
\* "nan" and digit separators are outside the texts the model feeds it.
float(amount_str) ==
    LET text == Strip(amount_str)
        signed == text # "" /\ Head(text) \in {"+", "-"}
        body == IF signed THEN Tail(text) ELSE text
        dots == { i \in 1..Len(body) : SubSeq(body, i, i) = "." }
        point == IF dots = {} THEN Len(body) + 1
                 ELSE CHOOSE i \in dots : \A j \in dots : i <= j
        whole == SubSeq(body, 1, point - 1)
        frac == SubSeq(body, point + 1, Len(body))
        cents == IF Len(frac) = 0 THEN 0
                 ELSE IF Len(frac) = 1 THEN 10 * ToInt(frac)
                 ELSE ToInt(frac)
    IN  IF /\ Cardinality(dots) <= 1
           /\ AllDigits(whole) /\ AllDigits(frac)
           /\ Len(whole) + Len(frac) >= 1
           /\ Len(frac) <= 2
        THEN [ok |-> TRUE,
              value |-> (IF signed /\ Head(text) = "-" THEN -1 ELSE 1)
                            * (100 * ToInt(whole) + cents)]
        ELSE ValueError

\* %Y of strftime: the C library writes the year; glibc writes a year below
\* 1000 without leading zeros, other libraries write four digits
strftime_Y(date) == ToDigits(date.year, IF pads_year THEN 4 ELSE 1)

\* date.strftime("%Y-%m")
strftime_Ym(date) == strftime_Y(date) \o "-" \o ToDigits(date.month, 2)

\* date.strftime("%Y-%m-%d")
strftime_Ymd(date) == strftime_Ym(date) \o "-" \o ToDigits(date.day, 2)

\* f"{x:.2f}" of an exact amount in hundredths
format_2f(x) ==
    LET magnitude == IF x < 0 THEN -x ELSE x
    IN  (IF x < 0 THEN "-" ELSE "") \o ToDigits(magnitude \div 100, 1)
            \o "." \o ToDigits(magnitude % 100, 2)

-----------------------------------------------------------------------------
(* parse_expenses_from_csv *)

col_transaction_type == 0
col_amount_eur == 2
col_date == 6
col_merchant == 10

\* row[col] of a Python list
Field(row, col) == row[col + 1]

\* lines 122-151 of the loop body, for a row that has its 11 fields
parse_fields(row) ==
    IF Lower(Strip(Field(row, col_transaction_type))) = "kredit"
    THEN [accepted |-> FALSE]
    ELSE LET tx_date == strptime(Strip(Field(row, col_date)))
             tx_amount == float(Strip(Field(row, col_amount_eur)))
             merchant_str == Strip(Field(row, col_merchant))
         IN  IF ~tx_date.ok THEN [accepted |-> FALSE]
             ELSE IF ~tx_amount.ok THEN [accepted |-> FALSE]
             ELSE [accepted |-> TRUE,
                   tx |-> [date |-> tx_date.value,
                           merchant |-> merchant_str,
                           amount |-> tx_amount.value,
                           category |-> categorize_merchant(merchant_str)]]

\* a variant of the length test that also rejects rows of exactly 11 fields
parse_row_off_by_one(row) ==
    IF Len(row) <= 11 THEN [accepted |-> FALSE] ELSE parse_fields(row)

\* one iteration of `for row in reader`: the transaction appended, if any
parse_row(row) ==
    IF Len(row) < 11 THEN [accepted |-> FALSE] ELSE parse_fields(row)

\* a variant that leaves the header row in the reader
keep_header(rows) == rows

\* `_ = next(reader, None)`: what the reader still holds after the header
skip_header(rows) == IF rows = <<>> THEN <<>> ELSE Tail(rows)

-----------------------------------------------------------------------------
(* get_monthly_data / main: the fold into monthly_sums *)

\* dict.get(key, 0.0), and the value a defaultdict(float) starts a key with
Get(d, key) == IF key \in DOMAIN d THEN d[key] ELSE 0

\* a variant that assigns the amount instead of adding it
set_in_monthly_sums(sums, tx) ==
    LET month == strftime_Ym(tx.date)
        of_month == IF month \in DOMAIN sums THEN sums[month] ELSE <<>>
    IN  (month :> ((tx.category :> tx.amount) @@ of_month)) @@ sums

\* monthly_sums[month][tx["category"]] += tx["amount"]
add_to_monthly_sums(sums, tx) ==
    LET month == strftime_Ym(tx.date)
        of_month == IF month \in DOMAIN sums THEN sums[month] ELSE <<>>
    IN  (month :> ((tx.category :> (Get(of_month, tx.category) + tx.amount))
                        @@ of_month)) @@ sums

RECURSIVE fold_monthly_sums(_, _)
\* for tx in all_expenses: ...
fold_monthly_sums(sums, txs) ==
    IF txs = <<>> THEN sums
    ELSE fold_monthly_sums(add_to_monthly_sums(sums, Head(txs)), Tail(txs))

\* str < str for month keys (code points of "-" and the digits)
KeyChars == "-0123456789"

RECURSIVE StrLess(_, _)
StrLess(a, b) ==
    IF b = "" THEN FALSE
    ELSE IF a = "" THEN TRUE
    ELSE IF Head(a) = Head(b) THEN StrLess(Tail(a), Tail(b))
    ELSE IndexIn(Head(a), KeyChars) < IndexIn(Head(b), KeyChars)

RECURSIVE sorted(_)
\* sorted(keys)
sorted(keys) ==
    IF keys = {} THEN <<>>
    ELSE LET least == CHOOSE k \in keys : \A j \in keys : j = k \/ StrLess(k, j)
         IN  <<least>> \o sorted(keys \ {least})

RECURSIVE Sum(_)
\* sum(...) of a list of amounts
Sum(values) == IF values = <<>> THEN 0 ELSE Head(values) + Sum(Tail(values))

-----------------------------------------------------------------------------
(* The source directory *)

Row(transaction_type, amount, date, merchant_text) ==
    << transaction_type, "", amount, "", "", "", date, "", "", "", merchant_text >>

LidlRow == Row("Nakup", "12.50", "05.01.2024", "LIDL BRATISLAVA")
KreditRow == Row("Kredit", "5.00", "06.01.2024", "REFUND XYZ")
PaddedKreditRow == Row(" \tKREDIT ", "8.00", "05.01.2024", "LIDL BRATISLAVA")
ShortRow == SubSeq(LidlRow, 1, 10)
BadDateRow == Row("Nakup", "4.00", "31.02.2024", "Bolt ride")
BadAmountRow == Row("Nakup", "12,50", "05.01.2024", "LIDL BRATISLAVA")
NegativeRow == Row("Nakup", " -3.5", "7.1.2024", " xyz ") \o << "extra" >>
TravelRow == Row("Nakup", "20.00", "10.02.2024", "RYANAIR")

\* the rows of the single-file runs
ParseRows == { LidlRow, KreditRow, PaddedKreditRow, ShortRow, BadDateRow,
               BadAmountRow, NegativeRow }

\* the rows of the directory runs
DiskRows == { LidlRow, KreditRow, TravelRow }

Unreadable == [readable |-> FALSE, rows |-> <<>>]

\* the files of at most n rows whose rows come from rows, and the unreadable one
Files(rows, n) ==
    { [readable |-> TRUE, rows |-> r] : r \in UNION { [1..k -> rows] : k \in 0..n } }
        \cup { Unreadable }

RECURSIVE Disks(_, _)
\* the directories of at most files files holding at most n rows together
Disks(files, n) ==
    IF files = 0 THEN { <<>> }
    ELSE { <<>> } \cup
         UNION { { <<f>> \o d : d \in Disks(files - 1, n - Len(f.rows)) } :
                    f \in Files(DiskRows, n) }

NoResponse == [status |-> "none"]

\* month=None, the default of the optional URL parameter
None == "<None>"

\* no URL parameters
NoArgs == [category |-> None, month |-> None]

\* the entry points modelled
Ops == { "monthly_data", "category_averages", "main" }

Idle ==
    /\ op = "none"
    /\ pc = "idle"
    /\ csv_file = 0
    /\ reader = <<>>
    /\ expenses = <<>>
    /\ all_expenses = <<>>
    /\ monthly_sums = <<>>
    /\ response = NoResponse
    /\ args = NoArgs

\* no harness uses the categorizer variables or the concurrent callers
Unused ==
    /\ merchant = ""
    /\ category = "none"
    /\ queries = <<>>

\* no row of these disks has a year below 1000, where pads_year would matter
Init ==
    /\ disk \in Disks(MaxFiles, MaxDiskRows)
    /\ Idle
    /\ Unused
    /\ pads_year = FALSE

InitParse ==
    /\ disk \in { <<f>> : f \in Files(ParseRows, MaxFileRows) }
    /\ Idle
    /\ Unused
    /\ pads_year = FALSE

-----------------------------------------------------------------------------
(* Ingestion: get_expenses_data (app.py) and the same loop in main *)

\* an entry point is called: csv_files = glob.glob(...); all_expenses = []
Request ==
    /\ pc = "idle"
    /\ \E o \in Ops : op' = o
    /\ pc' = "files"
    /\ csv_file' = 1
    /\ all_expenses' = <<>>
    /\ UNCHANGED <<disk, reader, expenses, monthly_sums, response, merchant, category,
                   args, pads_year, queries>>

\* parse_expenses_from_csv: open() succeeds, the header row is skipped
OpenFile ==
    /\ pc = "files"
    /\ csv_file <= Len(disk)
    /\ disk[csv_file].readable
    /\ reader' = skip_header(disk[csv_file].rows)
    /\ expenses' = <<>>
    /\ pc' = "rows"
    /\ UNCHANGED <<disk, op, csv_file, all_expenses, monthly_sums, response,
                   merchant, category,
                   args, pads_year, queries>>

\* parse_expenses_from_csv: open() raises; nothing catches it up to the entry point
OpenFails ==
    /\ pc = "files"
    /\ csv_file <= Len(disk)
    /\ ~disk[csv_file].readable
    /\ response' = [status |-> "raised", error |-> "OSError"]
    /\ pc' = "done"
    /\ UNCHANGED <<disk, op, csv_file, reader, expenses, all_expenses,
                   monthly_sums, merchant, category,
                   args, pads_year, queries>>

\* parse_expenses_from_csv: one iteration of the row loop
ParseRow ==
    /\ pc = "rows"
    /\ reader # <<>>
    /\ LET parsed == parse_row(Head(reader))
       IN  expenses' = IF parsed.accepted THEN Append(expenses, parsed.tx)
                       ELSE expenses
    /\ reader' = Tail(reader)
    /\ UNCHANGED <<disk, op, pc, csv_file, all_expenses, monthly_sums, response,
                   merchant, category,
                   args, pads_year, queries>>

\* a variant that assigns the file's list instead of extending with it
AssignExpenses ==
    /\ pc = "rows"
    /\ reader = <<>>
    /\ all_expenses' = expenses
    /\ csv_file' = csv_file + 1
    /\ pc' = "files"
    /\ UNCHANGED <<disk, op, reader, expenses, monthly_sums, response,
                   merchant, category,
                   args, pads_year, queries>>

\* parse_expenses_from_csv returns; all_expenses.extend(file_expenses)
ExtendExpenses ==
    /\ pc = "rows"
    /\ reader = <<>>
    /\ all_expenses' = all_expenses \o expenses
    /\ csv_file' = csv_file + 1
    /\ pc' = "files"
    /\ UNCHANGED <<disk, op, reader, expenses, monthly_sums, response,
                   merchant, category,
                   args, pads_year, queries>>

\* the entry points that call get_expenses_data and never get_monthly_data
ExpensesOnlyOps == { "transactions", "category_transactions" }

\* the file loop is over: get_expenses_data returns to an entry point
GetExpensesData ==
    /\ pc = "files"
    /\ csv_file > Len(disk)
    /\ op \in ExpensesOnlyOps
    /\ pc' = "respond"
    /\ UNCHANGED <<disk, op, csv_file, reader, expenses, all_expenses, monthly_sums,
                   response, merchant, category, args, pads_year, queries>>

\* the file loop is over: the fold into monthly_sums
GetMonthlyData ==
    /\ pc = "files"
    /\ csv_file > Len(disk)
    /\ op \notin ExpensesOnlyOps
    /\ monthly_sums' = fold_monthly_sums(<<>>, all_expenses)
    /\ pc' = "respond"
    /\ UNCHANGED <<disk, op, csv_file, reader, expenses, all_expenses, response,
                   merchant, category,
                   args, pads_year, queries>>

-----------------------------------------------------------------------------
(* Entry points *)

\* the elements of a list
Range(seq) == { seq[i] : i \in 1..Len(seq) }

\* the result of a true division a / b, kept exact
Ratio(a, b) == [num |-> a, den |-> b]

\* a variant that takes the first n elements
FirstN(seq, n) == SubSeq(seq, 1, n)

\* seq[-n:]
LastN(seq, n) == SubSeq(seq, Len(seq) - n + 1, Len(seq))

\* sum(sums[month].get(cat, 0.0) for month in months)
SumOver(sums, months, cat) ==
    Sum([i \in 1..Len(months) |-> Get(sums[months[i]], cat)])

\* sum(sums[month].get(cat, 0.0) for cat in CATEGORY_ORDER)
MonthTotal(sums, month) ==
    Sum([i \in 1..Len(CATEGORY_ORDER) |-> Get(sums[month], CATEGORY_ORDER[i])])

\* app.py monthly_data: the body of the JSON response
monthly_data(sums) ==
    LET months == sorted(DOMAIN sums)
    IN  [months |-> months,
         categories |->
            [cat \in Range(CATEGORY_ORDER) |->
                [i \in 1..Len(months) |-> Get(sums[months[i]], cat)]],
         totals |-> [i \in 1..Len(months) |-> MonthTotal(sums, months[i])]]

\* app.py category_averages: the body of the JSON response
category_averages(sums) ==
    IF DOMAIN sums = {} THEN <<>>
    ELSE LET all_months == sorted(DOMAIN sums)
             num_months == Len(all_months)
             last_3_months == IF Len(all_months) >= 3 THEN LastN(all_months, 3)
                              ELSE all_months
         IN  [overall |->
                [cat \in Range(CATEGORY_ORDER) |->
                    IF num_months > 0
                    THEN Ratio(SumOver(sums, all_months, cat), num_months)
                    ELSE Ratio(0, 1)],
              last_3_months |->
                [cat \in Range(CATEGORY_ORDER) |->
                    IF last_3_months # <<>>
                    THEN Ratio(SumOver(sums, last_3_months, cat), Len(last_3_months))
                    ELSE Ratio(0, 1)],
              num_months |-> num_months,
              last_3_count |-> Len(last_3_months)]

Max(a, b) == IF a >= b THEN a ELSE b
Min(a, b) == IF a <= b THEN a ELSE b

\* a variant that divides by n as given, without clamping it
compute_last_n_unclamped(sums, category_order, n) ==
    LET all_months == sorted(DOMAIN sums)
        selected_months == LastN(all_months, Min(n, Len(all_months)))
        cat_avg == [cat \in Range(category_order) |->
                        Ratio(SumOver(sums, selected_months, cat), n)]
    IN  [avg |-> ("Monthly Total" :>
                    Ratio(Sum([i \in 1..Len(category_order) |->
                                cat_avg[category_order[i]].num]), n))
                 @@ cat_avg,
         selected_months |-> selected_months]

\* credit_card_expenses.py compute_last_n_month_averages: (avg, selected_months)
compute_last_n_month_averages(sums, category_order, n) ==
    LET all_months == sorted(DOMAIN sums)
    IN  IF all_months = <<>>
        THEN [avg |-> [cat \in Range(category_order) \cup {"Monthly Total"} |->
                          Ratio(0, 1)],
              selected_months |-> <<>>]
        ELSE LET clamped == Max(1, Min(n, Len(all_months)))
                 selected_months == LastN(all_months, clamped)
                 cat_avg == [cat \in Range(category_order) |->
                                Ratio(SumOver(sums, selected_months, cat), clamped)]
             IN  [avg |-> ("Monthly Total" :>
                            Ratio(Sum([i \in 1..Len(category_order) |->
                                        cat_avg[category_order[i]].num]), clamped))
                          @@ cat_avg,
                  selected_months |-> selected_months]

LAST_N == 3

\* credit_card_expenses.py main, lines 208-221: the month rows of the table
table_rows(sums) ==
    LET all_months == sorted(DOMAIN sums)
    IN  [i \in 1..Len(all_months) |->
            <<all_months[i]>>
            \o [j \in 1..Len(CATEGORY_ORDER) |->
                    format_2f(Get(sums[all_months[i]], CATEGORY_ORDER[j]))]
            \o <<format_2f(MonthTotal(sums, all_months[i]))>>]

\* credit_card_expenses.py main, lines 208-250: what it prints, or what it raises
main(sums) ==
    LET all_months == sorted(DOMAIN sums)
        table_data == table_rows(sums)
        last_n == compute_last_n_month_averages(sums, CATEGORY_ORDER, LAST_N)
    IN  IF Len(all_months) = 0
        THEN [status |-> "raised", error |-> "ZeroDivisionError"]
        ELSE [status |-> "ok",
              table_data |-> table_data,
              averages |->
                ("Monthly Total" :>
                    Ratio(Sum([i \in 1..Len(table_data) |->
                                float(table_data[i][Len(table_data[i])]).value]),
                          Len(all_months)))
                @@ [cat \in Range(CATEGORY_ORDER) |->
                        Ratio(SumOver(sums, all_months, cat), Len(all_months))],
              last_n_avg |-> last_n.avg,
              used_months |-> last_n.selected_months]

\* GET /api/monthly-data returns
MonthlyData ==
    /\ pc = "respond"
    /\ op = "monthly_data"
    /\ response' = [status |-> "ok", body |-> monthly_data(monthly_sums)]
    /\ pc' = "done"
    /\ UNCHANGED <<disk, op, csv_file, reader, expenses, all_expenses,
                   monthly_sums, merchant, category,
                   args, pads_year, queries>>

\* GET /api/category-averages returns
CategoryAverages ==
    /\ pc = "respond"
    /\ op = "category_averages"
    /\ response' = [status |-> "ok", body |-> category_averages(monthly_sums)]
    /\ pc' = "done"
    /\ UNCHANGED <<disk, op, csv_file, reader, expenses, all_expenses,
                   monthly_sums, merchant, category,
                   args, pads_year, queries>>

\* the command-line report is computed and printed, or raises
Main ==
    /\ pc = "respond"
    /\ op = "main"
    /\ response' = main(monthly_sums)
    /\ pc' = "done"
    /\ UNCHANGED <<disk, op, csv_file, reader, expenses, all_expenses,
                   monthly_sums, merchant, category,
                   args, pads_year, queries>>

\* the entry point is left: its locals are gone, the files stay
Return ==
    /\ pc = "done"
    /\ op' = "none"
    /\ pc' = "idle"
    /\ csv_file' = 0
    /\ reader' = <<>>
    /\ expenses' = <<>>
    /\ all_expenses' = <<>>
    /\ monthly_sums' = <<>>
    /\ response' = NoResponse
    /\ args' = NoArgs
    /\ UNCHANGED <<disk, merchant, category, pads_year, queries>>

Next ==
    \/ Request
    \/ OpenFile
    \/ OpenFails
    \/ ParseRow
    \/ ExtendExpenses
    \/ GetMonthlyData
    \/ MonthlyData
    \/ CategoryAverages
    \/ Main
    \/ Return

Spec == Init /\ [][Next]_vars

SpecParse == InitParse /\ [][Next]_vars

-----------------------------------------------------------------------------
(* Categorizer harness: categorize_merchant applied to generated merchants *)

Fragments == { "LIDL", "Ramen", "bolt", "RYANAIR", "Oil", "Parking",
               "IKEA", " ", "x", "Yeah" }

RECURSIVE Texts(_)
\* the texts made of at most n fragments
Texts(n) ==
    IF n = 0 THEN {""}
    ELSE LET shorter == Texts(n - 1)
         IN  shorter \cup { f \o t : f \in Fragments, t \in shorter }

InitCat ==
    /\ merchant \in Texts(MaxFragments)
    /\ category = "none"
    /\ disk = <<>>
    /\ op = "none"
    /\ pc = "idle"
    /\ csv_file = 0
    /\ reader = <<>>
    /\ expenses = <<>>
    /\ all_expenses = <<>>
    /\ monthly_sums = <<>>
    /\ response = NoResponse
    /\ args = NoArgs
    /\ pads_year = FALSE
    /\ queries = <<>>

Categorize ==
    /\ category = "none"
    /\ category' = categorize_merchant(merchant)
    /\ UNCHANGED <<merchant, pipeline_vars, args, pads_year, queries>>

NextCat == Categorize

SpecCat == InitCat /\ [][NextCat]_vars

-----------------------------------------------------------------------------
(* The entry points of app.py that take URL parameters or list transactions *)

MaxQueryRows == 4

\* tx.copy() with tx_copy['date'] = tx['date'].strftime('%Y-%m-%d')
tx_copy(tx) ==
    [date |-> strftime_Ymd(tx.date), merchant |-> tx.merchant,
     amount |-> tx.amount, category |-> tx.category]

\* the loop that builds transactions_json
transactions_json(txs) == [i \in 1..Len(txs) |-> tx_copy(txs[i])]

RECURSIVE insert_reverse(_, _)
\* where a stable descending sort puts x: behind every entry whose date
\* string is not smaller than its own
insert_reverse(list, x) ==
    IF list = <<>> THEN <<x>>
    ELSE IF StrLess(Head(list).date, x.date) THEN <<x>> \o list
    ELSE <<Head(list)>> \o insert_reverse(Tail(list), x)

RECURSIVE sort_reverse_from(_, _)
sort_reverse_from(done, rest) ==
    IF rest = <<>> THEN done
    ELSE sort_reverse_from(insert_reverse(done, Head(rest)), Tail(rest))

\* list.sort(key=lambda x: x['date'], reverse=True): the keys are strings
sort_date_reverse(list) == sort_reverse_from(<<>>, list)

\* app.py transactions: the body of the JSON response
transactions(txs) == sort_date_reverse(transactions_json(txs))

\* a variant without the guard
trend_unguarded(current, previous) == Ratio((current - previous) * 100, previous)

\* ((current - previous) / previous * 100) if previous > 0 else 0
trend(current, previous) ==
    IF previous > 0 THEN Ratio((current - previous) * 100, previous)
    ELSE Ratio(0, 1)

\* app.py trends: the body of the JSON response
trends(sums) ==
    LET months == sorted(DOMAIN sums)
    IN  IF Len(months) < 2 THEN <<>>
        ELSE [cat \in Range(CATEGORY_ORDER) |->
                LET values == [i \in 1..Len(months) |-> Get(sums[months[i]], cat)]
                    current == values[Len(values)]
                    previous == values[Len(values) - 1]
                IN  [current |-> current,
                     previous |-> previous,
                     trend_percent |-> trend(current, previous)]]

\* max(monthly_sums.keys())
max_key(keys) == CHOOSE k \in keys : \A j \in keys : j = k \/ StrLess(j, k)

\* a variant that ignores the requested month
select_latest(sums, month) == max_key(DOMAIN sums)

\* if month and month in monthly_sums: month, else max(monthly_sums.keys())
select_month(sums, month) ==
    IF month # None /\ month \in DOMAIN sums THEN month
    ELSE max_key(DOMAIN sums)

\* sorted(keys, reverse=True) of distinct keys
Reverse(seq) == [i \in 1..Len(seq) |-> seq[Len(seq) + 1 - i]]

\* [tx for tx in all_expenses if tx["date"].strftime("%Y-%m") == selected_month]
in_month(txs, selected_month) ==
    SelectSeq(txs, LAMBDA tx : strftime_Ym(tx.date) = selected_month)

\* [tx for tx in ... if tx['category'] == category]
in_category(txs, cat) == SelectSeq(txs, LAMBDA tx : tx.category = cat)

\* sum(tx['amount'] for tx in txs)
sum_amounts(txs) == Sum([i \in 1..Len(txs) |-> txs[i].amount])

\* app.py current_month_details: the body of the JSON response
current_month_details(sums, txs, month) ==
    IF DOMAIN sums = {} THEN <<>>
    ELSE LET selected_month == select_month(sums, month)
             current_month_transactions == in_month(txs, selected_month)
             listed == transactions_json(current_month_transactions)
         IN  [month |-> selected_month,
              category_totals |-> sums[selected_month],
              category_transactions |->
                [cat \in { listed[i].category : i \in 1..Len(listed) } |->
                    in_category(listed, cat)],
              daily_spending |->
                [day \in { listed[i].date : i \in 1..Len(listed) } |->
                    sum_amounts(SelectSeq(listed, LAMBDA tx : tx.date = day))],
              total_transactions |-> Len(current_month_transactions),
              available_months |-> Reverse(sorted(DOMAIN sums))]

\* a variant that counts and sums every transaction, whatever its category
category_transactions_unfiltered(txs, cat) ==
    [category |-> cat,
     transactions |-> sort_date_reverse(transactions_json(txs)),
     total_amount |-> sum_amounts(txs),
     transaction_count |-> Len(txs)]

\* app.py category_transactions: the body of the JSON response
category_transactions(txs, cat) ==
    LET category_txs == in_category(txs, cat)
    IN  [category |-> cat,
         transactions |-> sort_date_reverse(transactions_json(category_txs)),
         total_amount |-> sum_amounts(category_txs),
         transaction_count |-> Len(category_txs)]

\* app.py current_month_category_transactions: the body of the JSON response
current_month_category_transactions(sums, txs, cat, month) ==
    IF DOMAIN sums = {}
    THEN [category |-> cat, transactions |-> <<>>, total_amount |-> 0,
          transaction_count |-> 0]
    ELSE LET selected_month == select_month(sums, month)
             category_txs == in_category(in_month(txs, selected_month), cat)
         IN  [category |-> cat,
              month |-> selected_month,
              transactions |-> sort_date_reverse(transactions_json(category_txs)),
              total_amount |-> sum_amounts(category_txs),
              transaction_count |-> Len(category_txs)]

\* The objects of a call.  A dict or a list is an object: two names may stand
\* for one object, and a write through one name shows through the other.  A
\* store holds the dicts and the lists of a call by number, and under
\* monthly_sums the number of the inner dict of each month key.

\* the store of a call that holds (monthly_sums, all_expenses): list 1 is
\* all_expenses and holds dicts 1..n; the inner dicts of monthly_sums follow
load(sums, txs) ==
    LET months == sorted(DOMAIN sums)
    IN  [dicts |-> txs \o [i \in 1..Len(months) |-> sums[months[i]]],
         lists |-> << [i \in 1..Len(txs) |-> i] >>,
         monthly_sums |->
            [m \in DOMAIN sums |->
                Len(txs) + (CHOOSE i \in 1..Len(months) : months[i] = m)]]

\* what the name all_expenses stands for in a store
all_expenses_of(store) ==
    [i \in 1..Len(store.lists[1]) |-> store.dicts[store.lists[1][i]]]

\* what the name monthly_sums stands for in a store
monthly_sums_of(store) ==
    [m \in DOMAIN store.monthly_sums |-> store.dicts[store.monthly_sums[m]]]

\* the dicts a list holds, in list order
items_of(store, list) ==
    [i \in 1..Len(store.lists[list]) |-> store.dicts[store.lists[list][i]]]

\* d.copy(), dict(d): a new dict with the entries of d
dict_copy(store, d) ==
    [store |-> [store EXCEPT !.dicts = Append(@, store.dicts[d])],
     ref |-> Len(store.dicts) + 1]

\* d[key] = value
dict_setitem(store, d, key, value) ==
    [store EXCEPT !.dicts[d] = (key :> value) @@ @]

\* [], [x for x in ... if ...]: a new list holding the given dicts
list_new(store, held) ==
    [store |-> [store EXCEPT !.lists = Append(@, held)],
     ref |-> Len(store.lists) + 1]

\* list.append(d)
list_append(store, list, d) ==
    [store EXCEPT !.lists[list] = Append(@, d)]

\* a variant that sorts all_expenses itself, by the formatted dates
list_sort_all_expenses(store, list) ==
    LET held == store.lists[1]
        keyed == [i \in 1..Len(held) |->
                    [date |-> strftime_Ymd(store.dicts[held[i]].date),
                     ref |-> held[i]]]
        ordered == sort_date_reverse(keyed)
    IN  [store EXCEPT !.lists[1] = [i \in 1..Len(ordered) |-> ordered[i].ref]]

\* list.sort(key=lambda x: x['date'], reverse=True): the list is sorted in place
list_sort(store, list) ==
    LET held == store.lists[list]
        keyed == [i \in 1..Len(held) |->
                    [date |-> store.dicts[held[i]].date, ref |-> held[i]]]
        ordered == sort_date_reverse(keyed)
    IN  [store EXCEPT !.lists[list] = [i \in 1..Len(ordered) |-> ordered[i].ref]]

RECURSIVE copy_into(_, _, _)
\* for tx in txs: tx_copy = tx.copy(); tx_copy['date'] = tx['date'].strftime(
\* '%Y-%m-%d'); transactions_json.append(tx_copy)
copy_into(store, txs, out) ==
    IF txs = <<>> THEN store
    ELSE LET tx == Head(txs)
             copied == dict_copy(store, tx)
             dated == dict_setitem(copied.store, copied.ref, "date",
                                   strftime_Ymd(store.dicts[tx].date))
         IN  copy_into(list_append(dated, out, copied.ref), Tail(txs), out)

\* transactions_json = []; the copy loop; transactions_json.sort(...)
listed_sorted(store, txs) ==
    LET made == list_new(store, <<>>)
        filled == copy_into(made.store, txs, made.ref)
    IN  [store |-> list_sort(filled, made.ref), ref |-> made.ref]

\* app.py transactions on the objects of the call
transactions_on(store) == listed_sorted(store, store.lists[1])

\* app.py category_transactions on the objects of the call
category_transactions_on(store, cat) ==
    LET category_txs ==
            list_new(store, SelectSeq(store.lists[1],
                                      LAMBDA tx : store.dicts[tx].category = cat))
    IN  listed_sorted(category_txs.store, category_txs.store.lists[category_txs.ref])

\* app.py current_month_category_transactions on the objects of the call
current_month_category_transactions_on(store, cat, month) ==
    IF DOMAIN store.monthly_sums = {} THEN [store |-> store, ref |-> 0]
    ELSE LET selected_month == select_month(store.monthly_sums, month)
             category_txs ==
                list_new(store,
                         SelectSeq(store.lists[1],
                                   LAMBDA tx :
                                      /\ store.dicts[tx].category = cat
                                      /\ strftime_Ym(store.dicts[tx].date)
                                            = selected_month))
         IN  listed_sorted(category_txs.store,
                           category_txs.store.lists[category_txs.ref])

RECURSIVE group_into(_, _, _)
\* for tx in current_month_transactions: tx_copy = tx.copy(); tx_copy['date']
\* = ...; category_transactions[tx['category']].append(tx_copy), where a
\* defaultdict(list) makes the list of a category when it is first asked for
group_into(store, txs, groups) ==
    IF txs = <<>> THEN [store |-> store, groups |-> groups]
    ELSE LET tx == Head(txs)
             cat == store.dicts[tx].category
             copied == dict_copy(store, tx)
             dated == dict_setitem(copied.store, copied.ref, "date",
                                   strftime_Ymd(store.dicts[tx].date))
             made == IF cat \in DOMAIN groups
                     THEN [store |-> dated, ref |-> groups[cat]]
                     ELSE list_new(dated, <<>>)
         IN  group_into(list_append(made.store, made.ref, copied.ref), Tail(txs),
                        (cat :> made.ref) @@ groups)

RECURSIVE daily_into(_, _, _)
\* for tx in current_month_transactions: daily_spending[day] += tx["amount"]
daily_into(store, txs, daily) ==
    IF txs = <<>> THEN store
    ELSE LET tx == store.dicts[Head(txs)]
             day == strftime_Ymd(tx.date)
         IN  daily_into(dict_setitem(store, daily, day,
                                     Get(store.dicts[daily], day) + tx.amount),
                        Tail(txs), daily)

\* app.py current_month_details on the objects of the call
current_month_details_on(store, month) ==
    IF DOMAIN store.monthly_sums = {}
    THEN [store |-> store, groups |-> <<>>, totals |-> 0, daily |-> 0]
    ELSE LET selected_month == select_month(store.monthly_sums, month)
             current_month_data == store.monthly_sums[selected_month]
             current_month_transactions ==
                list_new(store,
                         SelectSeq(store.lists[1],
                                   LAMBDA tx : strftime_Ym(store.dicts[tx].date)
                                                  = selected_month))
             month_txs ==
                current_month_transactions.store.lists[current_month_transactions.ref]
             grouped == group_into(current_month_transactions.store, month_txs, <<>>)
             daily_spending ==
                [store |-> [grouped.store EXCEPT !.dicts = Append(@, <<>>)],
                 ref |-> Len(grouped.store.dicts) + 1]
             summed == daily_into(daily_spending.store, month_txs, daily_spending.ref)
             totals == dict_copy(summed, current_month_data)
         IN  [store |-> totals.store, groups |-> grouped.groups,
              totals |-> totals.ref, daily |-> daily_spending.ref]

\* GET /api/transactions returns
Transactions ==
    /\ pc = "respond"
    /\ op = "transactions"
    /\ response' = [status |-> "ok", body |-> transactions(all_expenses)]
    /\ pc' = "done"
    /\ LET after == transactions_on(load(monthly_sums, all_expenses)).store
       IN  /\ all_expenses' = all_expenses_of(after)
           /\ monthly_sums' = monthly_sums_of(after)
    /\ UNCHANGED <<disk, op, csv_file, reader, expenses, merchant, category,
                   args, pads_year, queries>>

\* GET /api/trends returns
Trends ==
    /\ pc = "respond"
    /\ op = "trends"
    /\ response' = [status |-> "ok", body |-> trends(monthly_sums)]
    /\ pc' = "done"
    /\ UNCHANGED <<disk, op, csv_file, reader, expenses, all_expenses,
                   monthly_sums, merchant, category, args, pads_year, queries>>

\* GET /api/current-month-details[/<month>] returns
CurrentMonthDetails ==
    /\ pc = "respond"
    /\ op = "current_month_details"
    /\ response' = [status |-> "ok",
                    body |-> current_month_details(monthly_sums, all_expenses,
                                                   args.month)]
    /\ pc' = "done"
    /\ LET after == current_month_details_on(load(monthly_sums, all_expenses),
                                                args.month).store
       IN  /\ all_expenses' = all_expenses_of(after)
           /\ monthly_sums' = monthly_sums_of(after)
    /\ UNCHANGED <<disk, op, csv_file, reader, expenses, merchant, category,
                   args, pads_year, queries>>

\* GET /api/category-transactions/<category> returns
CategoryTransactions ==
    /\ pc = "respond"
    /\ op = "category_transactions"
    /\ response' = [status |-> "ok",
                    body |-> category_transactions(all_expenses, args.category)]
    /\ pc' = "done"
    /\ LET after == category_transactions_on(load(monthly_sums, all_expenses),
                                                args.category).store
       IN  /\ all_expenses' = all_expenses_of(after)
           /\ monthly_sums' = monthly_sums_of(after)
    /\ UNCHANGED <<disk, op, csv_file, reader, expenses, merchant, category,
                   args, pads_year, queries>>

\* GET /api/current-month-category-transactions/<category>[/<month>] returns
CurrentMonthCategoryTransactions ==
    /\ pc = "respond"
    /\ op = "current_month_category_transactions"
    /\ response' = [status |-> "ok",
                    body |-> current_month_category_transactions(
                                monthly_sums, all_expenses, args.category,
                                args.month)]
    /\ pc' = "done"
    /\ LET after == current_month_category_transactions_on(
                        load(monthly_sums, all_expenses), args.category,
                        args.month).store
       IN  /\ all_expenses' = all_expenses_of(after)
           /\ monthly_sums' = monthly_sums_of(after)
    /\ UNCHANGED <<disk, op, csv_file, reader, expenses, merchant, category,
                   args, pads_year, queries>>

\* the rows of the files the parameterised entry points are called over
HeaderRow == Row("type", "amount", "date", "merchant")
OldRow == Row("Nakup", "9.00", "31.12.0999", "Tesco")
FebRow == Row("Nakup", "25.00", "03.02.2024", "LIDL")
MarRow == Row("Nakup", "12.50", "15.03.2024", "Billa")

QueryRows == { OldRow, NegativeRow, FebRow, MarRow }

\* the category identifiers requested: one that transactions carry, one unknown
RequestedCategories == { "groceries", "bogus" }

\* the month keys requested: none, one that files may hold, one they never hold
RequestedMonths == { None, "2024-02", "2030-01" }

\* the calls made: entry point and URL parameters
Queries ==
    { [op |-> o, args |-> NoArgs] :
        o \in {"category_averages", "main", "trends", "transactions"} }
    \cup { [op |-> "category_transactions", args |-> [category |-> c, month |-> None]] :
            c \in RequestedCategories }
    \cup { [op |-> "current_month_details", args |-> [category |-> None, month |-> m]] :
            m \in RequestedMonths }
    \cup { [op |-> "current_month_category_transactions", args |-> a] :
            a \in { [category |-> "groceries", month |-> None],
                    [category |-> "groceries", month |-> "2024-02"],
                    [category |-> "bogus", month |-> "2030-01"] } }

\* one file: a header row and at most MaxQueryRows data rows
InitQuery ==
    /\ disk \in { <<[readable |-> TRUE, rows |-> <<HeaderRow>> \o f.rows]>> :
                    f \in { g \in Files(QueryRows, MaxQueryRows) : g.readable } }
    /\ Idle
    /\ Unused
    /\ pads_year \in BOOLEAN

\* an entry point is called with its URL parameters
RequestQuery ==
    /\ pc = "idle"
    /\ \E q \in Queries : op' = q.op /\ args' = q.args
    /\ pc' = "files"
    /\ csv_file' = 1
    /\ all_expenses' = <<>>
    /\ UNCHANGED <<disk, reader, expenses, monthly_sums, response, merchant,
                   category, pads_year, queries>>

NextQuery ==
    \/ RequestQuery
    \/ OpenFile
    \/ ParseRow
    \/ ExtendExpenses
    \/ GetExpensesData
    \/ GetMonthlyData
    \/ CategoryAverages
    \/ Main
    \/ Transactions
    \/ Trends
    \/ CurrentMonthDetails
    \/ CategoryTransactions
    \/ CurrentMonthCategoryTransactions
    \/ Return

SpecQuery == InitQuery /\ [][NextQuery]_vars

-----------------------------------------------------------------------------
(* Float arithmetic: the amounts as the doubles the interpreter holds *)

\* A non-negative double below 2^17 that is zero or at least 2^-7 is a whole
\* number of units of 2^-59.  It is written as that number, in four limbs to
\* the base 2^24, least significant limb first.
LimbBase == 16777216

double_zero == <<0, 0, 0, 0>>

\* the limbs after the carries have been passed on
carry(limbs) ==
    LET l1 == limbs[2] + (limbs[1] \div LimbBase)
        l2 == limbs[3] + (l1 \div LimbBase)
        l3 == limbs[4] + (l2 \div LimbBase)
    IN  <<limbs[1] % LimbBase, l1 % LimbBase, l2 % LimbBase, l3>>

\* the number of binary digits of n, for 0 <= n < 2^24
bits_of(n) == CHOOSE b \in 0..24 : n < 2^b /\ (b = 0 \/ n >= 2^(b - 1))

\* the number of binary digits of the number the limbs stand for
bit_length(limbs) ==
    IF limbs[4] # 0 THEN 72 + bits_of(limbs[4])
    ELSE IF limbs[3] # 0 THEN 48 + bits_of(limbs[3])
    ELSE IF limbs[2] # 0 THEN 24 + bits_of(limbs[2])
    ELSE bits_of(limbs[1])

\* round-half-to-even to 53 significant binary digits of the number
\* limbs + rem / div, where 0 <= rem < div; at most 23 digits are dropped
round_53(limbs, rem, div) ==
    LET dropped == bit_length(limbs) - 53
    IN  IF dropped < 0 THEN limbs
        ELSE IF dropped = 0
        THEN IF 2 * rem > div \/ (2 * rem = div /\ limbs[1] % 2 = 1)
             THEN carry(<<limbs[1] + 1, limbs[2], limbs[3], limbs[4]>>)
             ELSE limbs
        ELSE LET unit == 2^dropped
                 low == limbs[1] % unit
                 odd == (limbs[1] \div unit) % 2 = 1
                 up == \/ 2 * low > unit
                       \/ 2 * low = unit /\ (rem > 0 \/ odd)
             IN  carry(<<limbs[1] - low + (IF up THEN unit ELSE 0),
                         limbs[2], limbs[3], limbs[4]>>)

\* float(text) for a text that denotes cents / 100, 0 <= cents < 2^17 * 100:
\* the double nearest to the decimal value
double_of(cents) ==
    LET whole == cents \div 100
        part == cents % 100
        \* cents * 2^59 / 100 = whole * 2^59 + part * 2^59 / 100, limb by limb
        w2 == (whole * 2048) % LimbBase
        w3 == (whole * 2048) \div LimbBase
        n2 == part * 2048
        q2 == n2 \div 100
        r2 == n2 % 100
        q1 == (r2 * LimbBase) \div 100
        r1 == (r2 * LimbBase) % 100
        q0 == (r1 * LimbBase) \div 100
        r0 == (r1 * LimbBase) % 100
    IN  round_53(carry(<<q0, q1, q2 + w2, w3>>), r0, 100)

\* x + y of two doubles
double_add(x, y) ==
    round_53(carry([i \in 1..4 |-> x[i] + y[i]]), 0, 1)

-----------------------------------------------------------------------------
(* Concurrent calls of get_monthly_data, each with its own locals *)

NumQueries == 2
MaxConcFiles == 2
MaxConcRows == 3

QueryIds == 1..NumQueries

\* monthly_sums[month][tx["category"]] += tx["amount"], on doubles
add_double_to_monthly_sums(sums, tx) ==
    LET month == strftime_Ym(tx.date)
        of_month == IF month \in DOMAIN sums THEN sums[month] ELSE <<>>
        before == IF tx.category \in DOMAIN of_month THEN of_month[tx.category]
                  ELSE double_zero
    IN  (month :> ((tx.category :> double_add(before, double_of(tx.amount)))
                        @@ of_month)) @@ sums

RECURSIVE fold_double_monthly_sums(_, _)
\* for tx in all_expenses: ..., on doubles
fold_double_monthly_sums(sums, txs) ==
    IF txs = <<>> THEN sums
    ELSE fold_double_monthly_sums(add_double_to_monthly_sums(sums, Head(txs)),
                                  Tail(txs))

RECURSIVE parse_rows(_)
\* the row loop of parse_expenses_from_csv over what the reader holds
parse_rows(rows) ==
    IF rows = <<>> THEN <<>>
    ELSE LET parsed == parse_row(Head(rows))
         IN  (IF parsed.accepted THEN <<parsed.tx>> ELSE <<>>)
                \o parse_rows(Tail(rows))

\* parse_expenses_from_csv(file_path): the list it returns
parse_expenses_from_csv(rows) == parse_rows(skip_header(rows))

CoinRow == Row("Nakup", "0.10", "04.02.2024", "Billa")

ConcRows == { FebRow, CoinRow }

RECURSIVE ConcDisks(_, _)
\* the directories of at most files files, each a header row and data rows,
\* holding at most n data rows together
ConcDisks(files, n) ==
    IF files = 0 THEN { <<>> }
    ELSE { <<>> } \cup
         UNION { { <<[readable |-> TRUE, rows |-> <<HeaderRow>> \o r]>> \o d :
                     d \in ConcDisks(files - 1, n - Len(r)) } :
                 r \in UNION { [1..k -> ConcRows] : k \in 0..n } }

\* a call that has not started
IdleQuery == [pc |-> "idle", csv_file |-> 0, all_expenses |-> <<>>,
              monthly_sums |-> <<>>]

InitConc ==
    /\ disk \in ConcDisks(MaxConcFiles, MaxConcRows)
    /\ Idle
    /\ merchant = ""
    /\ category = "none"
    /\ pads_year = FALSE
    /\ queries = [q \in QueryIds |-> IdleQuery]

\* get_monthly_data calls get_expenses_data: glob, all_expenses = []
CallGetMonthlyData(q) ==
    /\ queries[q].pc = "idle"
    /\ queries' = [queries EXCEPT ![q] = [@ EXCEPT !.pc = "files", !.csv_file = 1,
                                                    !.all_expenses = <<>>]]
    /\ UNCHANGED <<pipeline_vars, merchant, category, args, pads_year>>

\* a variant in which the list is a module-level one that every call extends
ReadFileShared(q) ==
    /\ queries[q].pc = "files"
    /\ queries[q].csv_file <= Len(disk)
    /\ all_expenses' = all_expenses
                          \o parse_expenses_from_csv(disk[queries[q].csv_file].rows)
    /\ queries' = [queries EXCEPT ![q] = [@ EXCEPT !.csv_file = @ + 1,
                                                    !.all_expenses = all_expenses']]
    /\ UNCHANGED <<disk, op, pc, csv_file, reader, expenses, monthly_sums, response,
                   merchant, category, args, pads_year>>

\* one iteration of the file loop: parse the file, extend the call's own list
ReadFile(q) ==
    /\ queries[q].pc = "files"
    /\ queries[q].csv_file <= Len(disk)
    /\ queries' = [queries EXCEPT ![q] =
                      [@ EXCEPT !.csv_file = @ + 1,
                                !.all_expenses =
                                    @ \o parse_expenses_from_csv(
                                            disk[queries[q].csv_file].rows)]]
    /\ UNCHANGED <<pipeline_vars, merchant, category, args, pads_year>>

\* a variant in which the aggregate is a module-level one that every call adds to
FoldIntoShared(q) ==
    /\ queries[q].pc = "files"
    /\ queries[q].csv_file > Len(disk)
    /\ monthly_sums' = fold_double_monthly_sums(monthly_sums, queries[q].all_expenses)
    /\ queries' = [queries EXCEPT ![q] = [@ EXCEPT !.pc = "done",
                                                    !.monthly_sums = monthly_sums']]
    /\ UNCHANGED <<disk, op, pc, csv_file, reader, expenses, all_expenses, response,
                   merchant, category, args, pads_year>>

\* the file loop is over: the call folds its list into its own aggregate and
\* returns (dict(monthly_sums), all_expenses)
FoldMonthlySums(q) ==
    /\ queries[q].pc = "files"
    /\ queries[q].csv_file > Len(disk)
    /\ queries' = [queries EXCEPT ![q] =
                      [@ EXCEPT !.pc = "done",
                                !.monthly_sums =
                                    fold_double_monthly_sums(
                                        <<>>, queries[q].all_expenses)]]
    /\ UNCHANGED <<pipeline_vars, merchant, category, args, pads_year>>

NextConc ==
    \E q \in QueryIds :
        \/ CallGetMonthlyData(q)
        \/ ReadFile(q)
        \/ FoldMonthlySums(q)

SpecConc == InitConc /\ [][NextConc]_vars

-----------------------------------------------------------------------------
(* current_month_details with the sums as the doubles the interpreter holds *)

MaxDetailRows == 3

\* a variant that assigns the amount instead of adding it
set_double_in_daily_spending(daily, tx) ==
    (strftime_Ymd(tx.date) :> double_of(tx.amount)) @@ daily

\* daily_spending[day] += tx["amount"], on doubles
add_double_to_daily_spending(daily, tx) ==
    LET day == strftime_Ymd(tx.date)
        before == IF day \in DOMAIN daily THEN daily[day] ELSE double_zero
    IN  (day :> double_add(before, double_of(tx.amount))) @@ daily

RECURSIVE double_daily_spending(_, _)
\* for tx in current_month_transactions: ..., on doubles
double_daily_spending(daily, txs) ==
    IF txs = <<>> THEN daily
    ELSE double_daily_spending(add_double_to_daily_spending(daily, Head(txs)),
                               Tail(txs))

\* app.py current_month_details over an aggregate of doubles: the body of
\* the JSON response
double_current_month_details(sums, txs, month) ==
    IF DOMAIN sums = {} THEN <<>>
    ELSE LET selected_month == select_month(sums, month)
             current_month_transactions == in_month(txs, selected_month)
             listed == transactions_json(current_month_transactions)
         IN  [month |-> selected_month,
              category_totals |-> sums[selected_month],
              category_transactions |->
                [cat \in { listed[i].category : i \in 1..Len(listed) } |->
                    in_category(listed, cat)],
              daily_spending |->
                double_daily_spending(<<>>, current_month_transactions),
              total_transactions |-> Len(current_month_transactions),
              available_months |-> Reverse(sorted(DOMAIN sums))]

\* the file loop is over: the fold into monthly_sums, on doubles
GetMonthlyDataOnDoubles ==
    /\ pc = "files"
    /\ csv_file > Len(disk)
    /\ monthly_sums' = fold_double_monthly_sums(<<>>, all_expenses)
    /\ pc' = "respond"
    /\ UNCHANGED <<disk, op, csv_file, reader, expenses, all_expenses, response,
                   merchant, category, args, pads_year, queries>>

\* GET /api/current-month-details[/<month>] returns, the sums being doubles
CurrentMonthDetailsOnDoubles ==
    /\ pc = "respond"
    /\ op = "current_month_details"
    /\ response' = [status |-> "ok",
                    body |-> double_current_month_details(
                                monthly_sums, all_expenses, args.month)]
    /\ pc' = "done"
    /\ UNCHANGED <<disk, op, csv_file, reader, expenses, all_expenses,
                   monthly_sums, merchant, category, args, pads_year, queries>>

\* the rows of the files the month details are asked over: two days of
\* February with two categories, and a day of March
FlightRow == Row("Nakup", "0.10", "03.02.2024", "RYANAIR")

DetailRows == { FebRow, CoinRow, FlightRow, MarRow }

\* one file: a header row and at most MaxDetailRows data rows, none of a year
\* below 1000
InitDetail ==
    /\ disk \in { <<[readable |-> TRUE, rows |-> <<HeaderRow>> \o f.rows]>> :
                    f \in { g \in Files(DetailRows, MaxDetailRows) : g.readable } }
    /\ Idle
    /\ Unused
    /\ pads_year = FALSE

\* /api/current-month-details is called, with or without a month
RequestDetails ==
    /\ pc = "idle"
    /\ op' = "current_month_details"
    /\ \E m \in RequestedMonths : args' = [category |-> None, month |-> m]
    /\ pc' = "files"
    /\ csv_file' = 1
    /\ all_expenses' = <<>>
    /\ UNCHANGED <<disk, reader, expenses, monthly_sums, response, merchant,
                   category, pads_year, queries>>

NextDetail ==
    \/ RequestDetails
    \/ OpenFile
    \/ ParseRow
    \/ ExtendExpenses
    \/ GetMonthlyDataOnDoubles
    \/ CurrentMonthDetailsOnDoubles
    \/ Return

SpecDetail == InitDetail /\ [][NextDetail]_vars

-----------------------------------------------------------------------------
(* C2 *)

CategoryNames == { CATEGORIES[ci].category : ci \in 1..Len(CATEGORIES) }

\* the keyword kw stands in text at position i, character by character
OccursAt(kw, text, i) ==
    /\ i + Len(kw) - 1 <= Len(text)
    /\ \A j \in 1..Len(kw) : SubSeq(text, i + j - 1, i + j - 1) = SubSeq(kw, j, j)

\* the categories of the table having a keyword that occurs in the lowercased text
Matching(text) ==
    LET lowered == Lower(text)
    IN  { ci \in 1..Len(CATEGORIES) :
            \E ki \in 1..Len(CATEGORIES[ci].keywords) :
                \E i \in 1..Len(lowered) :
                    OccursAt(CATEGORIES[ci].keywords[ki], lowered, i) }

\* C2: categorize_merchant is total and first-match: once it has run, its
\* result is the table's first category (lowest position) with a keyword
\* inside the lowercased merchant text, and "other" when there is none; the
\* result is always a table key or "other".
C2_FirstMatch ==
    category # "none" =>
        LET matching == Matching(merchant)
        IN  /\ category \in CategoryNames \cup {"other"}
            /\ IF matching = {}
               THEN category = "other"
               ELSE \E ci \in matching :
                        /\ \A cj \in matching : ci <= cj
                        /\ category = CATEGORIES[ci].category

\* a merchant with keywords of two categories, the later category's keyword
\* coming first in the text, has been categorized
C2_Witness ==
    /\ category # "none"
    /\ Cardinality(Matching(merchant)) >= 2
    /\ merchant = "boltRamen"

-----------------------------------------------------------------------------
(* Notions the properties are stated with *)

\* s is "kredit" in any letter case with any whitespace around it
IsCreditMarker(s) ==
    \E i \in 1..Len(s) :
        /\ i + 5 <= Len(s)
        /\ \A k \in 1..6 :
              SubSeq(s, i + k - 1, i + k - 1)
                  \in { SubSeq("kredit", k, k), SubSeq("KREDIT", k, k) }
        /\ \A k \in (1..(i - 1)) \cup ((i + 6)..Len(s)) : IsSpace(SubSeq(s, k, k))

\* the four acceptance conditions of a data row
Acceptable(row) ==
    /\ Len(row) >= 11
    /\ ~IsCreditMarker(row[1])
    /\ strptime(Strip(row[7])).ok
    /\ float(row[3]).ok

\* the transaction an acceptable row stands for
TransactionOf(row) ==
    [date |-> strptime(Strip(row[7])).value,
     merchant |-> Strip(row[11]),
     amount |-> float(row[3]).value,
     category |-> categorize_merchant(Strip(row[11]))]

RECURSIVE TransactionsOf(_)
\* the transactions of the acceptable rows among rows, in row order
TransactionsOf(rows) ==
    IF rows = <<>> THEN <<>>
    ELSE (IF Acceptable(Head(rows)) THEN <<TransactionOf(Head(rows))>> ELSE <<>>)
            \o TransactionsOf(Tail(rows))

\* the rows of a file after its first row
DataRows(rows) == SubSeq(rows, 2, Len(rows))

\* the data rows of the open file that the row loop has already been through
Consumed ==
    LET rows == disk[csv_file].rows
    IN  SubSeq(rows, 2, Len(rows) - Len(reader))

RECURSIVE FlatTransactions(_)
\* the transactions of the files, file after file
FlatTransactions(files) ==
    IF files = <<>> THEN <<>>
    ELSE TransactionsOf(DataRows(Head(files).rows)) \o FlatTransactions(Tail(files))

\* the month key a transaction falls in, read off its date
MonthKeyOf(tx) ==
    ToDigits(tx.date.year, 4) \o "-" \o ToDigits(tx.date.month, 2)

RECURSIVE AmountIn(_, _)
\* the sum of the amounts of the transactions of txs falling in the month key
AmountIn(txs, key) ==
    IF txs = <<>> THEN 0
    ELSE (IF MonthKeyOf(Head(txs)) = key THEN Head(txs).amount ELSE 0)
            + AmountIn(Tail(txs), key)

-----------------------------------------------------------------------------
(* C1 *)

\* C1: sum invariant: in the monthly series returned by monthly_data, the
\* grand total of every month present equals the sum of the amounts of all
\* transactions whose month key is that month.
C1_SumInvariant ==
    (pc = "done" /\ op = "monthly_data" /\ response.status = "ok") =>
        \A i \in 1..Len(response.body.months) :
            response.body.totals[i] = AmountIn(all_expenses, response.body.months[i])

-----------------------------------------------------------------------------
(* C3 *)

\* C3: the display order ends with "other" and contains every category
\* identifier categorize_merchant returns.
C3_DisplayOrderComplete ==
    /\ CATEGORY_ORDER[Len(CATEGORY_ORDER)] = "other"
    /\ category # "none" => category \in Range(CATEGORY_ORDER)

-----------------------------------------------------------------------------
(* C4 *)

\* C4: refund exclusion: the iteration of the row loop over a row whose
\* direction field is the credit marker (any letter case, any surrounding
\* whitespace) adds no transaction to the file's list, and neither the flat
\* list nor the monthly aggregate changes in that step.
C4_RefundExclusion ==
    [][ (/\ pc = "rows"
         /\ reader # <<>>
         /\ Len(Head(reader)) >= 1
         /\ IsCreditMarker(Head(reader)[1]))
        => (/\ expenses' = expenses
            /\ all_expenses' = all_expenses
            /\ monthly_sums' = monthly_sums) ]_vars

\* a file whose second data row is a padded upper-case credit row between two
\* accepted rows has been read to the end
C4_Witness ==
    /\ pc = "rows"
    /\ reader = <<>>
    /\ disk[csv_file].rows = <<KreditRow, LidlRow, PaddedKreditRow, LidlRow>>
    /\ Len(expenses) = 2

-----------------------------------------------------------------------------
(* C5 *)

\* C5: row-level rejection is silent and local: at every point of the row
\* loop the file's list holds exactly the transactions of the rows gone
\* through that have at least 11 fields, a direction field other than the
\* credit marker, a date that parses and an amount that parses, in row
\* order; the rows in between leave no trace and raise nothing.
C5_RowRejection ==
    pc = "rows" =>
        /\ expenses = TransactionsOf(Consumed)
        /\ response.status # "raised"

\* a file with a rejected row between two accepted rows, after a header row too
\* short to parse, has been read to the end
C5_Witness ==
    /\ pc = "rows"
    /\ reader = <<>>
    /\ disk[csv_file].rows = <<ShortRow, NegativeRow, BadDateRow, LidlRow>>
    /\ Len(expenses) = 2
    /\ expenses[1].merchant = "xyz"
    /\ expenses[2].merchant = "LIDL BRATISLAVA"

-----------------------------------------------------------------------------
(* C6 *)

\* C6: every transaction that survives parsing has a non-negative amount, and
\* so has every amount folded into the monthly aggregate.
C6_NonNegativeAmount ==
    /\ \A i \in 1..Len(expenses) : expenses[i].amount >= 0
    /\ \A i \in 1..Len(all_expenses) : all_expenses[i].amount >= 0
    /\ \A month \in DOMAIN monthly_sums :
          \A cat \in DOMAIN monthly_sums[month] : monthly_sums[month][cat] >= 0

-----------------------------------------------------------------------------
(* C7 *)

\* C7: the first row of a file is skipped whatever it holds: the row loop
\* never gets to see it, every later row goes through the loop, and a file of
\* zero or one rows yields the empty list without an error.
C7_HeaderSkipped ==
    pc = "rows" =>
        LET rows == disk[csv_file].rows
        IN  /\ Len(reader) <= Len(rows)
            /\ reader = SubSeq(rows, Len(rows) - Len(reader) + 1, Len(rows))
            /\ Len(rows) >= 1 => Len(reader) <= Len(rows) - 1
            /\ Len(rows) <= 1 => (reader = <<>> /\ expenses = <<>>)
            /\ reader = <<>> =>
                  Len(expenses) =
                      Cardinality({ i \in 2..Len(rows) : Acceptable(rows[i]) })
            /\ response.status # "raised"

\* a file whose first row would be accepted, followed by one accepted row,
\* has been read to the end: one transaction, not two
C7_Witness ==
    /\ pc = "rows"
    /\ reader = <<>>
    /\ disk[csv_file].rows = <<NegativeRow, LidlRow>>
    /\ Acceptable(NegativeRow)
    /\ Len(expenses) = 1
    /\ expenses[1].merchant = "LIDL BRATISLAVA"

-----------------------------------------------------------------------------
(* C8 *)

\* C8: ingestion concatenates: the flat list is at every point the accepted
\* transactions of the files already finished, file after file in glob order
\* and in row order within a file, nothing lost, doubled or sorted; with no
\* files at all the loop ends with the empty list and nothing raised.
C8_Concatenation ==
    /\ pc \in {"files", "rows"} =>
          all_expenses = FlatTransactions(SubSeq(disk, 1, csv_file - 1))
    /\ (pc = "respond" /\ disk = <<>>) =>
          (all_expenses = <<>> /\ response.status # "raised")
    /\ pc = "respond" => all_expenses = FlatTransactions(disk)

\* two files were ingested, the first holding a February row and the second a
\* January row: the flat list keeps file order
C8_Witness ==
    /\ pc = "respond"
    /\ Len(disk) = 2
    /\ disk[1].rows = <<KreditRow, TravelRow>>
    /\ disk[2].rows = <<KreditRow, LidlRow>>
    /\ Len(all_expenses) = 2
    /\ all_expenses[1].merchant = "RYANAIR"
    /\ all_expenses[2].merchant = "LIDL BRATISLAVA"

-----------------------------------------------------------------------------
(* C9 *)

\* the files of the directory that can be read, in glob order
ReadableFiles == SelectSeq(disk, LAMBDA f : f.readable)

\* C9: an unreadable file fails alone: ingestion gets past it, nothing is
\* raised to the entry point because of it, and the flat list the entry point
\* works on holds the accepted transactions of all the other files.
C9_UnreadableFileSkipped ==
    pc = "done" =>
        /\ ~(response.status = "raised" /\ response.error = "OSError")
        /\ all_expenses = FlatTransactions(ReadableFiles)

-----------------------------------------------------------------------------
(* C10 *)

\* C10: empty input is not an error: an entry point that found no accepted
\* transaction in readable files (so zero months) ends with a result, not
\* with an exception.
C10_EmptyInputNoError ==
    (/\ pc = "done"
     /\ \A i \in 1..Len(disk) : disk[i].readable
     /\ all_expenses = <<>>)
        => response.status = "ok"

-----------------------------------------------------------------------------
(* C11 *)

RECURSIVE CategoryTotal(_, _)
\* the sum of the amounts of the transactions of txs with the category
CategoryTotal(txs, cat) ==
    IF txs = <<>> THEN 0
    ELSE (IF Head(txs).category = cat THEN Head(txs).amount ELSE 0)
            + CategoryTotal(Tail(txs), cat)

\* the distinct months the transactions of txs fall in, as (year, month)
MonthsOf(txs) ==
    { [year |-> txs[i].date.year, month |-> txs[i].date.month] : i \in 1..Len(txs) }

Abs(x) == IF x < 0 THEN -x ELSE x

RECURSIVE Gcd(_, _)
Gcd(a, b) == IF b = 0 THEN a ELSE Gcd(b, a % b)

\* a quotient in lowest terms with a positive denominator
Lowest(a, b) ==
    LET g == Gcd(Abs(a), Abs(b))
        sign == IF b < 0 THEN -1 ELSE 1
    IN  [num |-> sign * (a \div g), den |-> sign * (b \div g)]

\* the exact quotient r equals a / b, for b # 0
QuotientIs(r, a, b) == r.den # 0 /\ Lowest(r.num, r.den) = Lowest(a, b)

\* the exact quotient r equals a / b, for b > 0
RatioIs(r, a, b) == r.den > 0 /\ QuotientIs(r, a, b)

AllReadable == \A i \in 1..Len(disk) : disk[i].readable

\* the entry point has answered with overall averages
HasOverall ==
    IF op = "main" THEN response.status = "ok"
    ELSE response.status = "ok" /\ "overall" \in DOMAIN response.body

\* the overall averages reported
Overall == IF op = "main" THEN response.averages ELSE response.body.overall

\* C11: overall averages: once category_averages or main has ended over
\* readable files, it reports for each display-order category the category's
\* total across all months divided by the number of distinct months present,
\* and with zero months it reports zero for every display-order category.
C11_OverallAverages ==
    (pc = "done" /\ op \in {"category_averages", "main"} /\ AllReadable) =>
        /\ HasOverall
        /\ \A i \in 1..Len(CATEGORY_ORDER) :
              LET cat == CATEGORY_ORDER[i]
                  num_months == Cardinality(MonthsOf(all_expenses))
              IN  IF num_months = 0 THEN Overall[cat].num = 0
                  ELSE RatioIs(Overall[cat], CategoryTotal(all_expenses, cat),
                               num_months)

-----------------------------------------------------------------------------
(* C12 *)

\* the n largest of a set of month keys
Largest(keys, n) == { k \in keys : Cardinality({ j \in keys : StrLess(k, j) }) < n }

RECURSIVE SumInMonths(_, _, _)
\* the category's sum over a set of months of the aggregate
SumInMonths(sums, months, cat) ==
    IF months = {} THEN 0
    ELSE LET m == CHOOSE k \in months : TRUE
         IN  Get(sums[m], cat) + SumInMonths(sums, months \ {m}, cat)

\* the trailing averages and the effective count the entry point reported
Trailing ==
    IF op = "main"
    THEN [avg |-> response.last_n_avg, count |-> Len(response.used_months),
          months |-> Range(response.used_months)]
    ELSE [avg |-> response.body.last_3_months, count |-> response.body.last_3_count,
          months |-> Largest(DOMAIN monthly_sums, response.body.last_3_count)]

-----------------------------------------------------------------------------
(* C13 *)

\* month a is before month b
Before(a, b) == a.year < b.year \/ (a.year = b.year /\ a.month < b.month)

\* the most recent of a non-empty set of months
MostRecent(months) == CHOOSE m \in months : \A k \in months : k = m \/ Before(k, m)

RECURSIVE SumIn(_, _, _)
\* the sum of the amounts of the transactions of txs of a month and category
SumIn(txs, month, cat) ==
    IF txs = <<>> THEN 0
    ELSE (IF /\ Head(txs).date.year = month.year
             /\ Head(txs).date.month = month.month
             /\ Head(txs).category = cat
          THEN Head(txs).amount ELSE 0)
            + SumIn(Tail(txs), month, cat)

\* C13: trend formula: once trends has ended over at least two months, it
\* reports for every display-order category 'current', the category's sum in
\* the most recent month present, and 'previous', its sum in the second most
\* recent month present, and whenever previous is nonzero the trend percent
\* is (current - previous) / previous * 100.
C13_TrendFormula ==
    (/\ pc = "done"
     /\ op = "trends"
     /\ Cardinality(MonthsOf(all_expenses)) >= 2)
        => LET months == MonthsOf(all_expenses)
               latest == MostRecent(months)
               second == MostRecent(months \ {latest})
           IN  /\ response.status = "ok"
               /\ \A i \in 1..Len(CATEGORY_ORDER) :
                    LET cat == CATEGORY_ORDER[i]
                        current == SumIn(all_expenses, latest, cat)
                        previous == SumIn(all_expenses, second, cat)
                    IN  /\ cat \in DOMAIN response.body
                        /\ response.body[cat].current = current
                        /\ response.body[cat].previous = previous
                        /\ previous # 0 =>
                              QuotientIs(response.body[cat].trend_percent,
                                         (current - previous) * 100, previous)

-----------------------------------------------------------------------------
(* C14 *)

\* the month key before the last one, in the order of the keys
SecondLargest(keys) == CHOOSE k \in keys : Cardinality({ j \in keys : StrLess(k, j) }) = 1

-----------------------------------------------------------------------------
(* C15 *)

MonthViews == { "current_month_details", "current_month_category_transactions" }

-----------------------------------------------------------------------------
(* C16 *)

CategoryViews == { "category_transactions", "current_month_category_transactions" }

\* how often x occurs in a list
Count(list, x) == Cardinality({ i \in 1..Len(list) : list[i] = x })

\* two lists hold the same entries, each as often
SameEntries(a, b) ==
    /\ Len(a) = Len(b)
    /\ \A i \in 1..Len(a) : Count(a, a[i]) = Count(b, a[i])

\* a transaction as the views list it, the date written as text
Listed(tx) ==
    [date |-> strftime_Ymd(tx.date), merchant |-> tx.merchant,
     amount |-> tx.amount, category |-> tx.category]

RECURSIVE Selected(_, _, _)
\* the transactions of txs a view is about: those of the category, and of the
\* month answered for when the view is per month
Selected(txs, cat, month) ==
    IF txs = <<>> THEN <<>>
    ELSE (IF /\ Head(txs).category = cat
             /\ (month = None \/ strftime_Ym(Head(txs).date) = month)
          THEN <<Head(txs)>> ELSE <<>>)
            \o Selected(Tail(txs), cat, month)

\* the transactions the view that has ended is about
SelectedForView ==
    Selected(all_expenses, args.category,
             IF op = "category_transactions" THEN None
             ELSE IF "month" \in DOMAIN response.body THEN response.body.month
             ELSE "no month")

RECURSIVE Total(_)
\* the sum of the amounts of a list of transactions
Total(txs) == IF txs = <<>> THEN 0 ELSE Head(txs).amount + Total(Tail(txs))

\* C16: category transaction lookup: once the per-category lookup or the
\* per-category-per-month lookup has ended, it has answered without an error
\* with exactly the transactions of the flat sequence that have the requested
\* category (and fall in the month answered for), their number as
\* transaction_count and the sum of their amounts as total_amount; for a
\* category no transaction carries that is an empty list, count 0, total 0.
C16_CategoryLookup ==
    (pc = "done" /\ op \in CategoryViews)
        => /\ response.status = "ok"
           /\ response.body.category = args.category
           /\ SameEntries(response.body.transactions,
                          [i \in 1..Len(SelectedForView) |-> Listed(SelectedForView[i])])
           /\ response.body.transaction_count = Len(SelectedForView)
           /\ response.body.total_amount = Total(SelectedForView)
           /\ (\A i \in 1..Len(all_expenses) : all_expenses[i].category # args.category)
                => /\ response.body.transactions = <<>>
                   /\ response.body.transaction_count = 0
                   /\ response.body.total_amount = 0

\* the per-category lookup has answered for groceries with two of the three
\* transactions of the files
C16_Witness ==
    /\ pc = "done"
    /\ op = "category_transactions"
    /\ args.category = "groceries"
    /\ Len(all_expenses) = 3
    /\ response.body.transaction_count = 2
    /\ response.body.total_amount = 3750

-----------------------------------------------------------------------------
(* C17 *)

ListViews == { "transactions" } \cup CategoryViews

\* the list of transactions the view that has ended answered with
ListOfView == IF op = "transactions" THEN response.body ELSE response.body.transactions

\* the transactions the list view that has ended is about
TransactionsOfView == IF op = "transactions" THEN all_expenses ELSE SelectedForView

\* the date a listed transaction's text stands for: year-month-day
DateOfText(text) ==
    LET dashes == { i \in 1..Len(text) : SubSeq(text, i, i) = "-" }
        first == CHOOSE i \in dashes : \A j \in dashes : i <= j
        last == CHOOSE i \in dashes : \A j \in dashes : j <= i
    IN  [year |-> ToInt(SubSeq(text, 1, first - 1)),
         month |-> ToInt(SubSeq(text, first + 1, last - 1)),
         day |-> ToInt(SubSeq(text, last + 1, Len(text)))]

\* date a is before date b
Earlier(a, b) ==
    \/ a.year < b.year
    \/ a.year = b.year /\ a.month < b.month
    \/ a.year = b.year /\ a.month = b.month /\ a.day < b.day

\* C17: every transaction list view (the full list, the per-category lookup,
\* the per-category-per-month lookup) that has ended lists the transactions
\* it is about, each once, ordered by date descending: of two consecutive
\* entries the first one's date is on or after the second one's.
C17_DateDescending ==
    (pc = "done" /\ op \in ListViews)
        => /\ response.status = "ok"
           /\ SameEntries(ListOfView,
                          [i \in 1..Len(TransactionsOfView) |->
                              Listed(TransactionsOfView[i])])
           /\ \A i \in 1..(Len(ListOfView) - 1) :
                ~Earlier(DateOfText(ListOfView[i].date),
                         DateOfText(ListOfView[i + 1].date))

-----------------------------------------------------------------------------
(* C18 *)

\* the month a month key stands for: year-month
MonthOfKey(key) ==
    LET dash == CHOOSE i \in 1..Len(key) : SubSeq(key, i, i) = "-"
    IN  [year |-> ToInt(SubSeq(key, 1, dash - 1)),
         month |-> ToInt(SubSeq(key, dash + 1, Len(key)))]

\* C18: monthly aggregation is an exact fold: once the flat list has been
\* folded, the aggregate has a key for a month if and only if a transaction
\* of the list falls in that month, one key per month, and under every key
\* every category holds the sum of the amounts of the transactions of that
\* month and category (nothing, read as zero, when there is none).
C18_ExactFold ==
    (pc = "respond" /\ op \notin ExpensesOnlyOps)
        => /\ { MonthOfKey(k) : k \in DOMAIN monthly_sums } = MonthsOf(all_expenses)
           /\ Cardinality(DOMAIN monthly_sums) = Cardinality(MonthsOf(all_expenses))
           /\ \A k \in DOMAIN monthly_sums :
                /\ DOMAIN monthly_sums[k] \subseteq CategoryNames \cup {"other"}
                /\ \A cat \in CategoryNames \cup {"other"} :
                      Get(monthly_sums[k], cat)
                          = SumIn(all_expenses, MonthOfKey(k), cat)

\* a flat list with two groceries transactions in February 2024 and a
\* transaction of another month has been folded
C18_Witness ==
    /\ pc = "respond"
    /\ Len(all_expenses) = 3
    /\ Cardinality(DOMAIN monthly_sums) = 2
    /\ "2024-02" \in DOMAIN monthly_sums
    /\ monthly_sums["2024-02"]["groceries"] = 5000

-----------------------------------------------------------------------------
(* C19 *)

RECURSIVE PerFile(_)
\* the transactions of each file of a directory
PerFile(files) ==
    IF files = <<>> THEN <<>>
    ELSE <<TransactionsOf(DataRows(Head(files).rows))>> \o PerFile(Tail(files))

RECURSIVE Concat(_)
\* the lists of a list of lists, one after the other
Concat(lists) == IF lists = <<>> THEN <<>> ELSE Head(lists) \o Concat(Tail(lists))

\* the flat lists the files give, enumerated in every possible order
Enumerations(per_file) ==
    { Concat([i \in 1..Len(per_file) |-> per_file[p[i]]]) :
        p \in Permutations(1..Len(per_file)) }

\* the aggregate of a flat list, added up in list order as the code does
AggregateOf(txs) == fold_double_monthly_sums(<<>>, txs)

\* the calls that have returned
Returned == { q \in QueryIds : queries[q].pc = "done" }

\* two calls over the same unchanged files returned the same flat list and
\* the same aggregate
SameResults ==
    \A q1 \in Returned : \A q2 \in Returned :
        /\ queries[q1].all_expenses = queries[q2].all_expenses
        /\ queries[q1].monthly_sums = queries[q2].monthly_sums

\* C19 as stated: once the calls over the same unchanged files have returned,
\* they have returned identical flat transaction sets and identical
\* aggregates, and the aggregate is the one any other order of enumerating
\* the files gives.
C19_OrderIndependent ==
    Returned = QueryIds =>
        /\ SameResults
        /\ \A flat \in Enumerations(PerFile(disk)) :
              LET other == AggregateOf(flat)
              IN  \A q \in Returned :
                      /\ SameEntries(queries[q].all_expenses, flat)
                      /\ queries[q].monthly_sums = other

\* C19, amended: once the calls over the same unchanged files, enumerated in
\* the same order, have returned, they have returned identical flat lists
\* and identical aggregates; under any
\* other order of enumerating the files the flat list holds the same
\* transactions and the aggregate has the same month keys and the same
\* categories under each key (the sums are added up in another order).
C19_Idempotent ==
    Returned = QueryIds =>
        /\ SameResults
        /\ \A flat \in Enumerations(PerFile(disk)) :
              LET other == AggregateOf(flat)
              IN  \A q \in Returned :
                      /\ SameEntries(queries[q].all_expenses, flat)
                      /\ DOMAIN other = DOMAIN queries[q].monthly_sums
                      /\ \A k \in DOMAIN other :
                            DOMAIN other[k] = DOMAIN queries[q].monthly_sums[k]

\* two calls have returned over two files whose other order of enumeration
\* adds up to another sum
C19_Witness ==
    /\ Returned = QueryIds
    /\ Len(disk) = 2
    /\ queries[1].monthly_sums # <<>>
    /\ \E flat \in Enumerations(PerFile(disk)) :
          AggregateOf(flat) # queries[1].monthly_sums

-----------------------------------------------------------------------------
(* C20 *)

\* C20: concurrent calls are independent: under any interleaving of the
\* calls over the same unchanged files, every call that has returned has
\* returned the flat list and the aggregate it would return running alone,
\* whatever the other calls have done so far.
C20_Independent ==
    Returned # {} =>
        LET alone == Concat(PerFile(disk))
            alone_sums == AggregateOf(alone)
        IN  \A q \in Returned :
                /\ queries[q].all_expenses = alone
                /\ queries[q].monthly_sums = alone_sums

\* one call has returned three transactions while another call is between
\* the two files
C20_Witness ==
    /\ Len(disk) = 2
    /\ queries[1].pc = "done"
    /\ Len(queries[1].all_expenses) = 3
    /\ queries[2].pc = "files"
    /\ queries[2].csv_file = 2
    /\ queries[2].all_expenses # <<>>

-----------------------------------------------------------------------------
(* C21 *)

\* the derived views: the full transaction list, the month details and the
\* category lookups
DerivedViews ==
    { "transactions", "current_month_details", "category_transactions",
      "current_month_category_transactions" }

\* the step in which a derived view computes its answer
ViewStep == pc = "respond" /\ pc' = "done" /\ op \in DerivedViews

\* the answer given is made of the new objects the view built: the sorted
\* list of copies, or the groups of copies, the copy of the month's totals
\* and the new dict of daily sums
AnswerIsBuilt ==
    LET start == load(monthly_sums, all_expenses)
        body == response'.body
    IN  /\ op = "transactions" =>
              LET run == transactions_on(start)
              IN  body = items_of(run.store, run.ref)
        /\ op = "category_transactions" =>
              LET run == category_transactions_on(start, args.category)
              IN  body.transactions = items_of(run.store, run.ref)
        /\ (op = "current_month_category_transactions"
                /\ DOMAIN monthly_sums # {}) =>
              LET run == current_month_category_transactions_on(
                            start, args.category, args.month)
              IN  body.transactions = items_of(run.store, run.ref)
        /\ (op = "current_month_details" /\ DOMAIN monthly_sums # {}) =>
              LET run == current_month_details_on(start, args.month)
              IN  /\ DOMAIN body.category_transactions = DOMAIN run.groups
                  /\ \A cat \in DOMAIN run.groups :
                        body.category_transactions[cat]
                            = items_of(run.store, run.groups[cat])
                  /\ body.category_totals = run.store.dicts[run.totals]
                  /\ body.daily_spending = run.store.dicts[run.daily]

\* C21: derived views do not mutate their inputs: the step in which the full
\* transaction list, the month details or a category lookup is computed
\* (dates converted to strings, lists sorted) leaves the flat transaction
\* sequence unchanged in content and order and leaves the monthly aggregate
\* unchanged; what it answers with is made of objects it built itself.
C21_ViewsKeepInputs ==
    [][ViewStep => /\ all_expenses' = all_expenses
                   /\ monthly_sums' = monthly_sums
                   /\ AnswerIsBuilt]_vars

\* the full transaction list has been given for three transactions: the
\* copies are listed latest first with their dates as text, while the flat
\* sequence still has its own order, earliest first, and its dates as dates
C21_Witness ==
    /\ pc = "done"
    /\ op = "transactions"
    /\ Len(all_expenses) = 3
    /\ all_expenses[1].date = [year |-> 2024, month |-> 1, day |-> 7]
    /\ all_expenses[3].date = [year |-> 2024, month |-> 3, day |-> 15]
    /\ response.body[1].date = "2024-03-15"
    /\ response.body[3].date = "2024-01-07"

-----------------------------------------------------------------------------
(* C22 *)

\* the month-detail view has answered with details of a month
DetailsGiven ==
    /\ pc = "done"
    /\ op = "current_month_details"
    /\ DOMAIN monthly_sums # {}

\* the transactions of the flat list that fall in the month answered for
MonthTransactions ==
    LET of_key == MonthOfKey(response.body.month)
    IN  SelectSeq(all_expenses,
                  LAMBDA tx : tx.date.year = of_key.year /\ tx.date.month = of_key.month)

RECURSIVE FloatSum(_, _)
\* acc plus the amounts of a list of transactions, added as floats in list order
FloatSum(acc, txs) ==
    IF txs = <<>> THEN acc
    ELSE FloatSum(double_add(acc, double_of(Head(txs).amount)), Tail(txs))

RECURSIVE FirstOccurrences(_, _)
\* the entries of a list that are not among seen, each once, in the order in
\* which they first occur: the order in which a dict holds the keys put in it
FirstOccurrences(list, seen) ==
    IF list = <<>> THEN <<>>
    ELSE IF Head(list) \in seen THEN FirstOccurrences(Tail(list), seen)
    ELSE <<Head(list)>> \o FirstOccurrences(Tail(list), seen \cup {Head(list)})

RECURSIVE GrandTotal(_, _, _)
\* acc plus the doubles a dict holds under the keys of a list, added as floats
\* in the order of the list
GrandTotal(acc, d, keys) ==
    IF keys = <<>> THEN acc
    ELSE GrandTotal(double_add(acc, d[Head(keys)]), d, Tail(keys))

\* the per-category total of every category is the sum of the amounts of the
\* transactions grouped under it
TotalsMatchGroups ==
    LET body == response.body
    IN  /\ DOMAIN body.category_totals = DOMAIN body.category_transactions
        /\ \A cat \in DOMAIN body.category_totals :
              body.category_totals[cat]
                  = FloatSum(double_zero, body.category_transactions[cat])

\* the grouped transactions are exactly the transactions of the month, each
\* under its category, and their number is total_transactions
GroupsAreTheMonth ==
    LET body == response.body
        groups == body.category_transactions
    IN  /\ \A cat \in DOMAIN groups :
              groups[cat] =
                 LET of_cat == SelectSeq(MonthTransactions,
                                         LAMBDA tx : tx.category = cat)
                 IN  [i \in 1..Len(of_cat) |-> Listed(of_cat[i])]
        /\ \A i \in 1..Len(MonthTransactions) :
              MonthTransactions[i].category \in DOMAIN groups
        /\ body.total_transactions = Len(MonthTransactions)
        /\ body.total_transactions > 0

\* the statement as claimed: the totals match the groups, the groups are the
\* month, and the per-calendar-day sums add up to the same grand total as the
\* per-category totals, each added up as floats in the order of its dict
C22_SameGrandTotal ==
    DetailsGiven =>
        /\ TotalsMatchGroups
        /\ GroupsAreTheMonth
        /\ LET txs == MonthTransactions
               days == FirstOccurrences(
                          [i \in 1..Len(txs) |-> Listed(txs[i]).date], {})
               cats == FirstOccurrences(
                          [i \in 1..Len(txs) |-> txs[i].category], {})
           IN  GrandTotal(double_zero, response.body.daily_spending, days)
                  = GrandTotal(double_zero, response.body.category_totals, cats)

\* C22: month-detail consistency: for the month answered for, the reported
\* per-category total of every category equals the sum of the amounts of the
\* transactions grouped under that category, the grouped transactions are
\* exactly the transactions of that month (their number is
\* total_transactions), and the per-calendar-day sums are the sums of the same
\* transactions grouped by day: there is a sum for a day exactly when a
\* transaction of the month falls on it, and it is the sum of the amounts of
\* that day's transactions, added as floats in list order.
C22_MonthDetailConsistent ==
    DetailsGiven =>
        /\ TotalsMatchGroups
        /\ GroupsAreTheMonth
        /\ LET daily == response.body.daily_spending
           IN  /\ \A i \in 1..Len(MonthTransactions) :
                     \E day \in DOMAIN daily :
                        DateOfText(day) = MonthTransactions[i].date
               /\ \A day \in DOMAIN daily :
                     LET of_day == SelectSeq(MonthTransactions,
                                             LAMBDA tx : tx.date = DateOfText(day))
                     IN  of_day # <<>> /\ daily[day] = FloatSum(double_zero, of_day)

\* the month details have been given for February 2024 with three
\* transactions on two days and in two categories
C22_Witness ==
    /\ DetailsGiven
    /\ response.body.month = "2024-02"
    /\ response.body.total_transactions = 3
    /\ DOMAIN response.body.daily_spending = {"2024-02-03", "2024-02-04"}
    /\ DOMAIN response.body.category_totals = {"groceries", "travel"}
    /\ Len(response.body.category_transactions["groceries"]) = 2

-----------------------------------------------------------------------------
(* C23 *)

\* the number of months the trailing averages are taken over: 3 clamped to
\* [1, number of months]
Clamped(sums) == Max(1, Min(3, Len(sorted(DOMAIN sums))))

\* C23: over a non-empty monthly aggregate the two trailing-average
\* implementations agree: the last-3-months averages and count of the web
\* query equal, category by category over the display order, the averages
\* and the number of selected months of
\* compute_last_n_month_averages(monthly_sums, CATEGORY_ORDER, 3), and that
\* number is 3 clamped to [1, number of months].  Each side is read off the
\* response of the entry point that ran and compared with the other
\* implementation applied to the same aggregate.
C23_AveragesAgree ==
    (pc = "done" /\ DOMAIN monthly_sums # {}) =>
        LET web == category_averages(monthly_sums)
            cli == compute_last_n_month_averages(monthly_sums, CATEGORY_ORDER, 3)
        IN  /\ op = "category_averages" =>
                  /\ \A i \in 1..Len(CATEGORY_ORDER) :
                        response.body.last_3_months[CATEGORY_ORDER[i]]
                            = cli.avg[CATEGORY_ORDER[i]]
                  /\ response.body.last_3_count = Len(cli.selected_months)
                  /\ response.body.last_3_count = Clamped(monthly_sums)
            /\ op = "main" =>
                  /\ \A i \in 1..Len(CATEGORY_ORDER) :
                        response.last_n_avg[CATEGORY_ORDER[i]]
                            = web.last_3_months[CATEGORY_ORDER[i]]
                  /\ Len(response.used_months) = web.last_3_count
                  /\ Len(response.used_months) = Clamped(monthly_sums)

\* the command-line report ran over four months and averaged the last
\* three of them, with a groceries average that is not zero
C23_Witness ==
    /\ pc = "done"
    /\ op = "main"
    /\ Len(sorted(DOMAIN monthly_sums)) = 4
    /\ Len(response.used_months) = 3
    /\ response.last_n_avg["groceries"].num > 0
    /\ response.last_n_avg["groceries"].den = 3

====
